---- MODULE Spec2Model ----
(***************************************************************************)
(* Background notification scheduler of plannify.                          *)
(*                                                                         *)
(*   - the service worker (public/sw.js): the scheduledNotifications map,  *)
(*     the timers armed by setTimeout, the message listener and the        *)
(*     notifier (showNotification);                                        *)
(*   - the page side (lib/background-notifications.ts): the                *)
(*     BackgroundNotificationManager singleton with its asynchronous       *)
(*     initialize / requestPermission / scheduleNotification and its       *)
(*     synchronous cancelNotification.                                     *)
(*                                                                         *)
(* JavaScript runs every handler to completion, so one action is one       *)
(* handler run, or the part of an async function between two awaits.       *)
(***************************************************************************)
EXTENDS Integers, Sequences, FiniteSets, TLC

(***************************************************************************)
(* Bounds of the model.                                                    *)
(***************************************************************************)
\* The clock runs from tick 0 to tick MaxTime, and the Dates handed to
\* scheduleNotification lie in that range.
MaxTime == 2
\* Number of calls the page makes on the manager, in Spec.
MaxCalls == 2
\* Number of messages the page posts, in SwSpec and FairSwSpec.
MaxPosts == 2
\* Number of window clients clients.matchAll finds, in ClickSpec.
MaxClients == 3
\* The largest hour written in a time string, in ParseSpec.
MaxHour == 25

(***************************************************************************)
(* Time.  The clock counts ticks of TickMs milliseconds: a delay of d      *)
(* ticks is d * TickMs ms.  TLC's integers are 32 bits wide, so the test   *)
(* delay_ms > 2147483647 of sw.js:150 is evaluated in ticks as             *)
(* d > MAX_TIMEOUT \div TickMs, which is the same test for an integer d.   *)
(***************************************************************************)
MAX_TIMEOUT == 2147483647
TickMs == 2 * 1000 * 1000 * 1000

Ids == {"", "x"}
Payloads == { [title |-> "Walk dog", body |-> ""],
              [title |-> "Feed cat", body |-> "9:30 PM"] }

(***************************************************************************)
(* A Date object: its time value in ticks, or NaN (an invalid Date).       *)
(***************************************************************************)
InvalidDate == [nan |-> TRUE, ms |-> 0]
DateOf(t) == [nan |-> FALSE, ms |-> t]

\* Date.prototype.toISOString throws a RangeError for an invalid Date;
\* otherwise it gives the time value as text.
toISOStringThrows(d) == d.nan
toISOString(d) == <<"ISO", d.ms>>

\* new Date(scheduledTime).getTime() on the text toISOString produced.
getTime(iso) == iso[2]

(***************************************************************************)
(* The service worker's scheduler state, as one record S:                  *)
(*   scheduled  the Map scheduledNotifications: id -> record               *)
(*   timers     the armed timeouts: handle -> what the callback captured   *)
(*              (id, title, body) and the tick the timeout is due          *)
(*   nextTimeoutId  the handle the next setTimeout returns                 *)
(*   shown      the notifier's calls, in order; by is the handle of the    *)
(*              timeout whose callback made the call, 0 for a call made    *)
(*              by the message handler itself                              *)
(*   cleared    handles passed to clearTimeout while armed                 *)
(***************************************************************************)
Without(f, k) == [j \in DOMAIN f \ {k} |-> f[j]]
EmptyMap == [j \in {} |-> j]

\* The mutation of cancelScheduledNotification that forgets clearTimeout.
cancelKeepsTimer(S, id) ==
  IF id \in DOMAIN S.scheduled
  THEN [S EXCEPT !.scheduled = Without(S.scheduled, id)]
  ELSE S

\* The mutation of cancelScheduledNotification that empties the whole map.
cancelClearsAll(S, id) ==
  [S EXCEPT !.timers = EmptyMap,
            !.scheduled = EmptyMap,
            !.cleared = @ \cup DOMAIN S.timers]

cancelScheduledNotification(S, id) ==
  IF id \in DOMAIN S.scheduled
  THEN LET h == S.scheduled[id].timeoutId
       IN [S EXCEPT !.timers = Without(S.timers, h),
                    !.scheduled = Without(S.scheduled, id),
                    !.cleared = IF h \in DOMAIN S.timers THEN @ \cup {h} ELSE @]
  ELSE S

\* tag: tag || 'activity-reminder'
TagOf(tag) == IF tag = "" THEN "activity-reminder" ELSE tag

showNotification(S, title, body, tag, by) ==
  [S EXCEPT !.shown = Append(@, [title |-> title, body |-> body,
                                 tag |-> TagOf(tag), id |-> tag, by |-> by])]

\* delay > 2147483647, with the delay in ticks
TooLong(delay) == delay > MAX_TIMEOUT \div TickMs

\* The mutation of the test delay <= 0 that lets a delay of 0 through.
IsPastStrict(delay) == delay < 0

\* delay <= 0
IsPast(delay) == delay <= 0

\* setTimeout(callback, delay) followed by scheduledNotifications.set
Arm(S, now, id, title, body, scheduledTime, delay) ==
  LET h == S.nextTimeoutId
  IN [S EXCEPT !.timers = (h :> [id |-> id, title |-> title, body |-> body,
                                 due |-> now + delay]) @@ @,
               !.scheduled = (id :> [timeoutId |-> h, title |-> title,
                                     body |-> body,
                                     scheduledTime |-> scheduledTime])
                             @@ Without(@, id),
               !.nextTimeoutId = h + 1]

\* The mutation of scheduleNotification that does not cancel the entry the
\* id already has.
scheduleWithoutCancel(S, now, id, title, body, scheduledTime) ==
  LET triggerTime == getTime(scheduledTime)
      delay == triggerTime - now
  IN IF IsPast(delay) THEN showNotification(S, title, body, id, 0)
     ELSE IF TooLong(delay) THEN S
     ELSE Arm(S, now, id, title, body, scheduledTime, delay)

\* The mutation of scheduleNotification that tests the delay against the
\* maximum before it cancels the entry the id already has.
scheduleCapsBeforeCancel(S, now, id, title, body, scheduledTime) ==
  LET S1 == cancelScheduledNotification(S, id)
      triggerTime == getTime(scheduledTime)
      delay == triggerTime - now
  IN IF TooLong(delay) THEN S
     ELSE IF IsPast(delay) THEN showNotification(S1, title, body, id, 0)
     ELSE Arm(S1, now, id, title, body, scheduledTime, delay)

scheduleNotification(S, now, id, title, body, scheduledTime) ==
  LET S1 == cancelScheduledNotification(S, id)
      triggerTime == getTime(scheduledTime)
      delay == triggerTime - now
  IN IF IsPast(delay) THEN showNotification(S1, title, body, id, 0)
     ELSE IF TooLong(delay) THEN S1
     ELSE Arm(S1, now, id, title, body, scheduledTime, delay)

\* The mutation of the callback that leaves the entry in the map.
CallbackKeepsEntry(S, h) ==
  LET t == S.timers[h]
      S1 == showNotification(S, t.title, t.body, t.id, h)
  IN [S1 EXCEPT !.timers = Without(@, h)]

\* The callback of the timeout with handle h: notify, then delete the entry
\* of the captured id.  A timeout that has fired is no longer armed.
TimeoutCallback(S, h) ==
  LET t == S.timers[h]
      S1 == showNotification(S, t.title, t.body, t.id, h)
  IN [S1 EXCEPT !.scheduled = Without(@, t.id),
                !.timers = Without(@, h)]

\* .then(() => { console.log(...) }): the callback of the notifier's
\* promise when call i of the notifier was rendered.
OnShown(S, i) == S

\* The mutation of the rejection callback that calls the notifier again.
OnShowErrorRetries(S, i) ==
  LET n == S.shown[i]
  IN showNotification(S, n.title, n.body, n.id, n.by)

\* .catch((error) => { console.error(...) }): the callback of the notifier's
\* promise when call i of the notifier was rejected.
OnShowError(S, i) == S

(***************************************************************************)
(* The notificationclick listener.  C is the record of one event:          *)
(*   action      event.action: 'close', 'open', or '' for a click on the   *)
(*               notification's body                                       *)
(*   clientList  what clients.matchAll resolves with, as the sequence of   *)
(*               the truth values of                                       *)
(*               client.url === '/' || client.url.includes(scope)          *)
(*   openWindow  whether self.clients.openWindow is defined                *)
(*   pc          "event" before the listener ran, "matchAll" while its     *)
(*               promise is pending, "done"                                *)
(*   effects     the calls the listener made, in order                     *)
(***************************************************************************)
Effect(kind, i) == [kind |-> kind, client |-> i]

NoClick == [action |-> "", clientList |-> << >>, openWindow |-> TRUE,
            pc |-> "done", effects |-> << >>]

\* The synchronous part of the listener.
notificationclick(C) ==
  LET C1 == [C EXCEPT !.effects = Append(@, Effect("close", 0))]
  IN IF C.action = "close" THEN [C1 EXCEPT !.pc = "done"]
     ELSE [C1 EXCEPT !.pc = "matchAll"]

\* The index of the first client of the list the loop focuses, 0 if none.
FirstMatch(clientList) ==
  LET matching == {i \in 1..Len(clientList) : clientList[i]}
  IN IF matching = {} THEN 0
     ELSE CHOOSE i \in matching : \A j \in matching : i <= j

\* The mutation of the callback that opens a window after focusing one.
matchAllThenOpensToo(C) ==
  LET i == FirstMatch(C.clientList)
      C1 == IF i # 0 THEN [C EXCEPT !.effects = Append(@, Effect("focus", i))]
            ELSE C
  IN IF C.openWindow
     THEN [C1 EXCEPT !.pc = "done", !.effects = Append(@, Effect("openWindow", 0))]
     ELSE [C1 EXCEPT !.pc = "done"]

\* The callback of clients.matchAll(...).then.
matchAllThen(C) ==
  LET i == FirstMatch(C.clientList)
  IN IF i # 0
     THEN [C EXCEPT !.pc = "done", !.effects = Append(@, Effect("focus", i))]
     ELSE IF C.openWindow
     THEN [C EXCEPT !.pc = "done", !.effects = Append(@, Effect("openWindow", 0))]
     ELSE [C EXCEPT !.pc = "done"]

(***************************************************************************)
(* parseTimeToDate.  A string is the sequence of its characters; a number  *)
(* is a record that is NaN or has a value; an instant is a number of       *)
(* seconds of local time, day 0 starting at 0.                             *)
(***************************************************************************)
DigitChars == <<"0", "1", "2", "3", "4", "5", "6", "7", "8", "9">>
IsDigit(c) == \E d \in 1..Len(DigitChars) : DigitChars[d] = c
DigitValue(c) == (CHOOSE d \in 1..Len(DigitChars) : DigitChars[d] = c) - 1

NaN == [nan |-> TRUE, val |-> 0]
Num(v) == [nan |-> FALSE, val |-> v]

RECURSIVE trimStart(_)
trimStart(s) == IF s # << >> /\ Head(s) = " " THEN trimStart(Tail(s)) ELSE s

RECURSIVE trimEnd(_)
trimEnd(s) ==
  IF s # << >> /\ s[Len(s)] = " " THEN trimEnd(SubSeq(s, 1, Len(s) - 1)) ELSE s

\* String.prototype.trim
trim(s) == trimEnd(trimStart(s))

LowerChar(c) ==
  CASE c = "A" -> "a" [] c = "M" -> "m" [] c = "P" -> "p" [] OTHER -> c

\* String.prototype.toLowerCase
toLowerCase(s) == [i \in 1..Len(s) |-> LowerChar(s[i])]

\* String.prototype.includes
includes(s, sub) ==
  \E i \in 1..(Len(s) - Len(sub) + 1) : SubSeq(s, i, i + Len(sub) - 1) = sub

\* timeStr.replace(/AM|PM|am|pm/gi, '')
RECURSIVE removeMeridiem(_)
removeMeridiem(s) ==
  IF Len(s) >= 2 /\ toLowerCase(SubSeq(s, 1, 2)) \in {<<"a", "m">>, <<"p", "m">>}
  THEN removeMeridiem(SubSeq(s, 3, Len(s)))
  ELSE IF s = << >> THEN << >>
  ELSE <<Head(s)>> \o removeMeridiem(Tail(s))

\* split(':'): the place of the first colon, parts[0], whether parts[1]
\* exists, and parts[1].
FirstColon(s) ==
  LET colons == {i \in 1..Len(s) : s[i] = ":"}
  IN IF colons = {} THEN Len(s) + 1
     ELSE CHOOSE i \in colons : \A j \in colons : i <= j

Part0(s) == SubSeq(s, 1, FirstColon(s) - 1)
HasPart1(s) == FirstColon(s) <= Len(s)
Part1(s) == Part0(SubSeq(s, FirstColon(s) + 1, Len(s)))

\* The value of the leading digits of s, after acc.
RECURSIVE digitsValue(_, _)
digitsValue(s, acc) ==
  IF s # << >> /\ IsDigit(Head(s))
  THEN digitsValue(Tail(s), acc * 10 + DigitValue(Head(s)))
  ELSE acc

\* parseInt(str): leading white space, a sign, then digits up to the first
\* character that is not one; NaN when there is no digit.
parseInt(str) ==
  LET s == trimStart(str)
      neg == s # << >> /\ Head(s) = "-"
      t == IF s # << >> /\ Head(s) \in {"-", "+"} THEN Tail(s) ELSE s
  IN IF t = << >> \/ ~IsDigit(Head(t)) THEN NaN
     ELSE Num(IF neg THEN 0 - digitsValue(t, 0) ELSE digitsValue(t, 0))

\* parts[1] ? parseInt(parts[1]) : 0
minutesOf(s) ==
  IF HasPart1(s) /\ Part1(s) # << >> THEN parseInt(Part1(s)) ELSE Num(0)

\* The test that chooses the 12-hour branch.  The two copies of the file
\* differ here: part_000 looks for 'AM', 'PM', 'am', 'pm' in the string,
\* part_001 for 'am', 'pm' in the lower-cased string.
is12Hour(variant, timeStr) ==
  IF variant = "part_000"
  THEN \/ includes(timeStr, <<"A", "M">>) \/ includes(timeStr, <<"P", "M">>)
       \/ includes(timeStr, <<"a", "m">>) \/ includes(timeStr, <<"p", "m">>)
  ELSE \/ includes(toLowerCase(timeStr), <<"a", "m">>)
       \/ includes(toLowerCase(timeStr), <<"p", "m">>)

\* The mutation of to24Hour that leaves 12 AM at 12.
to24HourKeepsNoon(hours, isPM) ==
  IF isPM /\ ~hours.nan /\ hours.val # 12 THEN Num(hours.val + 12) ELSE hours

\* if (isPM && hours !== 12) hours += 12; if (!isPM && hours === 12) hours = 0
to24Hour(hours, isPM) ==
  LET h1 == IF isPM /\ ~(~hours.nan /\ hours.val = 12)
            THEN (IF hours.nan THEN NaN ELSE Num(hours.val + 12))
            ELSE hours
  IN IF ~isPM /\ ~h1.nan /\ h1.val = 12 THEN Num(0) ELSE h1

\* hours and minutes as parseTimeToDate has them before it validates.
hoursAndMinutes(variant, str) ==
  LET timeStr == trim(str)
  IN IF is12Hour(variant, timeStr)
     THEN LET isPM == includes(toLowerCase(timeStr), <<"p", "m">>)
              cleanTime == trim(removeMeridiem(timeStr))
          IN [hours |-> to24Hour(parseInt(Part0(cleanTime)), isPM),
              minutes |-> minutesOf(cleanTime)]
     ELSE [hours |-> parseInt(Part0(timeStr)), minutes |-> minutesOf(timeStr)]

\* isNaN(hours) || isNaN(minutes) || hours < 0 || hours > 23 || ...
isInvalid(hm) ==
  \/ hm.hours.nan \/ hm.minutes.nan
  \/ hm.hours.val < 0 \/ hm.hours.val > 23
  \/ hm.minutes.val < 0 \/ hm.minutes.val > 59

DaySeconds == 24 * 60 * 60

\* scheduledTime.setHours(hours, minutes, 0, 0) on a Date made at instant t
setHours(t, hours, minutes) ==
  (t \div DaySeconds) * DaySeconds + hours * 60 * 60 + minutes * 60

\* The mutation of the test scheduledTime <= now that keeps a time equal
\* to now on today's date.
HasPassedStrict(scheduledTime, t) == scheduledTime < t

\* scheduledTime <= now
HasPassed(scheduledTime, t) == scheduledTime <= t

\* parseTimeToDate(timeStr) called at instant t: the instant of the Date it
\* returns.
parseTimeToDate(variant, timeStr, t) ==
  LET hm == hoursAndMinutes(variant, timeStr)
  IN IF isInvalid(hm) THEN t + 60
     ELSE LET scheduledTime == setHours(t, hm.hours.val, hm.minutes.val)
          IN IF HasPassed(scheduledTime, t) THEN scheduledTime + DaySeconds
             ELSE scheduledTime

\* The record of one call: the copy of the file, the string, the instant of
\* the call, and, once done, hours and minutes as normalized and the
\* instant returned.
NoParse == [variant |-> "none", timeStr |-> << >>,
            text |-> [hour |-> << >>, minute |-> << >>, gap |-> << >>,
                      marker |-> << >>],
            at |-> 0, done |-> FALSE,
            hm |-> [hours |-> NaN, minutes |-> NaN], returned |-> 0]

(***************************************************************************)
(* State.                                                                  *)
(*   sw            the worker's scheduler state (the record S above)       *)
(*   now           Date.now(), in ticks                                    *)
(*   queue         messages posted to the worker, not yet dispatched       *)
(*   worker        the state of the registration's worker                  *)
(*   isSupported, isInitialized, registration                              *)
(*                 the manager's fields (registration: is it non-null)     *)
(*   permission    Notification.permission                                 *)
(*   proc          the manager's calls in progress: proc[Ctor] is the      *)
(*                 initialize() the constructor starts, proc[Page] the     *)
(*                 call the page made last                                 *)
(*   ncalls        calls the page has made                                 *)
(*   lastSw        the message the worker dispatched last, what the        *)
(*                 scheduler did with it, and the type and id of the       *)
(*                 message dispatched before it                            *)
(*   click         one notificationclick event and what its handler did    *)
(*   parse         one call of parseTimeToDate and what it returned         *)
(*   notifier      how the promise of self.registration.showNotification   *)
(*                 settled, for the calls (indices of sw.shown) whose      *)
(*                 promise has settled and run its callback                *)
(***************************************************************************)
VARIABLES sw, now, queue, worker, isSupported, isInitialized, registration,
          permission, proc, ncalls, lastSw, click, parse, notifier

vars == <<sw, now, queue, worker, isSupported, isInitialized, registration,
          permission, proc, ncalls, lastSw, click, parse, notifier>>

\* The variables of ClickSpec, of ParseSpec and of NotifySpec; the other
\* specifications leave them alone.
sideVars == <<click, parse, notifier>>

swVars == <<sw, lastSw>>
mgrVars == <<isSupported, isInitialized, registration>>

Ctor == "constructor"
Page == "page"
Procs == {Ctor, Page}

NoArgs == [id |-> "", title |-> "", body |-> "", date |-> InvalidDate]

Idle == [op |-> "none", pc |-> "done", call |-> 0, ret |-> "none",
         args |-> NoArgs, prompts |-> 0, posted |-> FALSE, alert |-> "none",
         test |-> FALSE, registers |-> 0]

NoMessage == [type |-> "none", id |-> "", call |-> 0, outcome |-> "none",
              prev |-> "none", prevId |-> ""]

\* isReady(): isSupported && isInitialized && registration !== null
isReady == isSupported /\ isInitialized /\ registration

\* hasPermission()
hasPermission == permission = "granted"

\* registration.installing / .waiting / .active, for a worker in state w
Installing(w) == w = "installing"
Waiting(w) == w = "installed"
Active(w) == w \in {"activating", "activated"}

Init ==
  /\ sw = [scheduled |-> EmptyMap, timers |-> EmptyMap, nextTimeoutId |-> 1,
           shown |-> << >>, cleared |-> {}]
  /\ now = 0
  /\ queue = << >>
  /\ worker = "none"
  /\ isSupported \in BOOLEAN
  /\ isInitialized = FALSE
  /\ registration = FALSE
  /\ permission \in {"default", "granted", "denied"}
  /\ proc = [p \in Procs |->
               IF p = Ctor
               THEN [Idle EXCEPT !.op = "initialize",
                                 !.pc = IF isSupported THEN "awaitRegister"
                                        ELSE "done",
                                 !.registers = IF isSupported THEN 1 ELSE 0,
                                 !.ret = IF isSupported THEN "pending"
                                         ELSE "false"]
               ELSE Idle]
  /\ ncalls = 0
  /\ lastSw = NoMessage
  /\ click = NoClick
  /\ parse = NoParse
  /\ notifier = EmptyMap

(***************************************************************************)
(* The manager's methods.  P is the record of one call: op (the method the *)
(* page called), pc (the await the call is suspended at, or done), call    *)
(* (its number), ret (what it returned), args, prompts (permission prompts *)
(* the call issued), posted (whether it posted a SCHEDULE message), alert  *)
(* (the alert() it raised), test (whether it showed the page's own         *)
(* 'Notifications Enabled!' notification) and registers (the calls of      *)
(* navigator.serviceWorker.register() it made).                            *)
(***************************************************************************)
Begin(op, n, args) ==
  [Idle EXCEPT !.op = op, !.pc = "running", !.call = n, !.ret = "pending",
               !.args = args]

Return(P, r, alert) ==
  [P EXCEPT !.pc = "done", !.ret = IF r THEN "true" ELSE "false",
            !.alert = alert, !.args = NoArgs]

\* sendTestNotification(), called once the permission is granted: it shows
\* a notification if this.registration is set.
sendTestNotification(P, reg) == [P EXCEPT !.test = reg]

\* The mutation of CheckPermission that prompts again after a denial.
CheckPermissionReprompts(P, perm, reg) ==
  IF perm = "granted" THEN Return(sendTestNotification(P, reg), TRUE, "none")
  ELSE [P EXCEPT !.pc = "awaitPrompt", !.prompts = @ + 1]

\* requestPermission after the initialization part: the test of
\* Notification.permission and the call of Notification.requestPermission().
CheckPermission(P, perm, reg) ==
  IF perm = "granted" THEN Return(sendTestNotification(P, reg), TRUE, "none")
  ELSE IF perm = "denied" THEN Return(P, FALSE, "blocked")
  ELSE [P EXCEPT !.pc = "awaitPrompt", !.prompts = @ + 1]

\* requestPermission after the prompt: outcome is what the promise of
\* Notification.requestPermission() settled with ("error": it rejected).
PromptOutcome(P, outcome, reg) ==
  IF outcome = "granted" THEN Return(sendTestNotification(P, reg), TRUE, "none")
  ELSE IF outcome = "denied" THEN Return(P, FALSE, "denied")
  ELSE IF outcome = "default" THEN Return(P, FALSE, "dismissed")
  ELSE Return(P, FALSE, "promptFailed")

\* scheduleNotification after `await this.initialize()`: the tests of
\* this.registration and Notification.permission, the choice of the worker
\* and the postMessage.
SendSchedule(P, reg, perm, w) ==
  IF ~reg THEN Return(P, FALSE, "none")
  ELSE IF perm # "granted" THEN Return(P, FALSE, "none")
  ELSE IF ~(Active(w) \/ Waiting(w) \/ Installing(w)) THEN Return(P, FALSE, "none")
  ELSE IF toISOStringThrows(P.args.date) THEN Return(P, FALSE, "none")
  ELSE [Return(P, TRUE, "none") EXCEPT !.posted = TRUE]

ScheduleMessage(P) ==
  [type |-> "SCHEDULE_NOTIFICATION", id |-> P.args.id, title |-> P.args.title,
   body |-> P.args.body, scheduledTime |-> toISOString(P.args.date),
   call |-> P.call]

CancelMessage(id, n) == [type |-> "CANCEL_NOTIFICATION", id |-> id, call |-> n]

SkipWaitingMessage(n) == [type |-> "SKIP_WAITING", id |-> "", call |-> n]

\* What runs when the initialize() that call P was in returns r: the return
\* of initialize itself, or the rest of the method that awaited it.
AfterInitialize(P, r, reg, perm, w) ==
  CASE P.op = "initialize" -> Return(P, r, "none")
    [] P.op = "requestPermission" ->
         IF r THEN CheckPermission(P, perm, reg) ELSE Return(P, FALSE, "initFailed")
    [] P.op = "scheduleNotification" -> SendSchedule(P, reg, perm, w)

\* The mutation of initialize that skips the test of isSupported.
InitializeWithoutSupportCheck(P, sup, inited, reg, perm, w) ==
  IF inited THEN AfterInitialize(P, TRUE, reg, perm, w)
  ELSE [P EXCEPT !.pc = "awaitRegister", !.registers = @ + 1]

\* The mutation of initialize that registers again when already initialized.
InitializeAlwaysRegisters(P, sup, inited, reg, perm, w) ==
  IF ~sup THEN AfterInitialize(P, FALSE, reg, perm, w)
  ELSE [P EXCEPT !.pc = "awaitRegister", !.registers = @ + 1]

\* initialize() up to its first await.
EnterInitialize(P, sup, inited, reg, perm, w) ==
  IF ~sup THEN AfterInitialize(P, FALSE, reg, perm, w)
  ELSE IF inited THEN AfterInitialize(P, TRUE, reg, perm, w)
  ELSE [P EXCEPT !.pc = "awaitRegister", !.registers = @ + 1]

\* initialize() after register() resolved, up to its next await.
AfterRegister(P, w) ==
  IF Installing(w) THEN [P EXCEPT !.pc = "awaitActivated"]
  ELSE [P EXCEPT !.pc = "awaitReady"]

\* requestPermission() up to its first await.
EnterRequestPermission(P, sup, inited, reg, perm, w) ==
  IF ~sup THEN Return(P, FALSE, "unsupported")
  ELSE IF ~inited THEN EnterInitialize(P, sup, inited, reg, perm, w)
  ELSE CheckPermission(P, perm, reg)

\* scheduleNotification() up to its first await.
EnterScheduleNotification(P, sup, inited, reg, perm, w) ==
  IF ~inited THEN EnterInitialize(P, sup, inited, reg, perm, w)
  ELSE SendSchedule(P, reg, perm, w)

(***************************************************************************)
(* Actions of the page.                                                    *)
(***************************************************************************)
\* Call p moves from record P1 to P2; a SCHEDULE message is posted when P2
\* says so.
Continue(p, P1, P2) ==
  LET posts == P2.posted /\ ~P1.posted
  IN /\ proc' = [proc EXCEPT ![p] = P2]
     /\ queue' = IF posts THEN Append(queue, ScheduleMessage(P1)) ELSE queue

CallInitialize(p) ==
  /\ proc[p].pc = "done"
  /\ LET P == Begin("initialize", ncalls + 1, NoArgs)
     IN Continue(p, P, EnterInitialize(P, isSupported, isInitialized,
                                       registration, permission, worker))
  /\ ncalls' = ncalls + 1
  /\ UNCHANGED <<sideVars, swVars, mgrVars, now, worker, permission>>

CallRequestPermission(p) ==
  /\ proc[p].pc = "done"
  /\ LET P == Begin("requestPermission", ncalls + 1, NoArgs)
     IN Continue(p, P, EnterRequestPermission(P, isSupported, isInitialized,
                                              registration, permission, worker))
  /\ ncalls' = ncalls + 1
  /\ UNCHANGED <<sideVars, swVars, mgrVars, now, worker, permission>>

CallScheduleNotification(p, id, pl, d) ==
  /\ proc[p].pc = "done"
  /\ LET P == Begin("scheduleNotification", ncalls + 1,
                    [id |-> id, title |-> pl.title, body |-> pl.body, date |-> d])
     IN Continue(p, P, EnterScheduleNotification(P, isSupported, isInitialized,
                                                 registration, permission, worker))
  /\ ncalls' = ncalls + 1
  /\ UNCHANGED <<sideVars, swVars, mgrVars, now, worker, permission>>

\* cancelNotification(id) is synchronous.
CallCancelNotification(id) ==
  /\ IF registration /\ Active(worker)
     THEN queue' = Append(queue, CancelMessage(id, ncalls + 1))
     ELSE queue' = queue
  /\ ncalls' = ncalls + 1
  /\ UNCHANGED <<sideVars, swVars, mgrVars, now, worker, permission, proc>>

\* navigator.serviceWorker.register() resolves: the registration exists, with
\* a worker that starts installing if there was none, or none left.
RegisterResolves(p) ==
  /\ proc[p].pc = "awaitRegister"
  /\ worker' = IF worker \in {"none", "redundant"} THEN "installing" ELSE worker
  /\ registration' = TRUE
  /\ proc' = [proc EXCEPT ![p] = AfterRegister(proc[p], worker')]
  /\ IF Waiting(worker')
     THEN queue' = Append(queue, SkipWaitingMessage(proc[p].call))
     ELSE queue' = queue
  /\ UNCHANGED <<sideVars, swVars, isSupported, isInitialized, now, permission, ncalls>>

RegisterRejects(p) ==
  /\ proc[p].pc = "awaitRegister"
  /\ Continue(p, proc[p], AfterInitialize(proc[p], FALSE, registration,
                                          permission, worker))
  /\ UNCHANGED <<sideVars, swVars, mgrVars, now, worker, permission, ncalls>>

\* The statechange listener sees the worker reach 'activated'.
Activated(p) ==
  /\ proc[p].pc = "awaitActivated"
  /\ worker = "activated"
  /\ proc' = [proc EXCEPT ![p].pc = "awaitReady"]
  /\ UNCHANGED <<sideVars, swVars, mgrVars, now, worker, permission, ncalls, queue>>

\* navigator.serviceWorker.ready resolves once the registration has an
\* active worker.  The platform never rejects this promise.
ReadyResolves(p) ==
  /\ proc[p].pc = "awaitReady"
  /\ Active(worker)
  /\ isInitialized' = TRUE
  /\ Continue(p, proc[p], AfterInitialize(proc[p], TRUE, registration,
                                          permission, worker))
  /\ UNCHANGED <<sideVars, swVars, isSupported, registration, now, worker, permission,
                 ncalls>>

\* navigator.serviceWorker.ready rejects.  The platform promises it never
\* does; initialize's try block covers the await all the same, and this
\* action is part of LifeSpec only.
ReadyRejects(p) ==
  /\ proc[p].pc = "awaitReady"
  /\ Continue(p, proc[p], AfterInitialize(proc[p], FALSE, registration,
                                          permission, worker))
  /\ UNCHANGED <<sideVars, swVars, mgrVars, now, worker, permission, ncalls>>

\* The promise of Notification.requestPermission() settles.
PromptAnswered(p, outcome) ==
  /\ proc[p].pc = "awaitPrompt"
  /\ permission' = IF outcome \in {"granted", "denied"} THEN outcome
                   ELSE permission
  /\ proc' = [proc EXCEPT ![p] = PromptOutcome(proc[p], outcome, registration)]
  /\ UNCHANGED <<sideVars, swVars, mgrVars, now, worker, ncalls, queue>>

(***************************************************************************)
(* Actions of the worker and of its environment.                           *)
(***************************************************************************)
\* install, then (the install handler calls skipWaiting) activate.
NextWorkerState(w) ==
  CASE w = "installing" -> "installed"
    [] w = "installed" -> "activating"
    [] w = "activating" -> "activated"

WorkerStateChange ==
  /\ worker \in {"installing", "installed", "activating"}
  /\ worker' = NextWorkerState(worker)
  /\ UNCHANGED <<sideVars, swVars, mgrVars, now, permission, proc, ncalls, queue>>

\* The 'statechange' listener of initialize() when the worker it was added
\* to becomes redundant: e.target.state is not 'activated', resolve is not
\* called, and the promise initialize() awaits stays pending.
OnRedundant(P) ==
  IF P.pc = "awaitActivated" THEN [P EXCEPT !.pc = "awaitNever"] ELSE P

\* The install handler's waitUntil promise (caches.open, cache.addAll)
\* rejects: the installing worker becomes redundant.
InstallFails ==
  /\ worker = "installing"
  /\ worker' = "redundant"
  /\ proc' = [p \in Procs |-> OnRedundant(proc[p])]
  /\ UNCHANGED <<sideVars, swVars, mgrVars, now, permission, ncalls, queue>>

\* What the scheduler did with message m, from the states before and after.
Outcome(m, S, T) ==
  CASE m.type = "SCHEDULE_NOTIFICATION" ->
         IF m.id \in DOMAIN T.scheduled THEN "armed"
         ELSE IF Len(T.shown) > Len(S.shown) THEN "immediate"
         ELSE "capacity"
    [] m.type = "CANCEL_NOTIFICATION" ->
         IF m.id \in DOMAIN S.scheduled THEN "cancelled" ELSE "absent"
    [] OTHER -> "none"

\* The mutation of the listener that does not recognise CANCEL_NOTIFICATION.
OnMessageIgnoresCancel(S, t, m) ==
  CASE m.type = "SCHEDULE_NOTIFICATION" ->
         scheduleNotification(S, t, m.id, m.title, m.body, m.scheduledTime)
    [] OTHER -> S

\* The 'message' listener, on the oldest message posted.
OnMessage(S, t, m) ==
  CASE m.type = "SCHEDULE_NOTIFICATION" ->
         scheduleNotification(S, t, m.id, m.title, m.body, m.scheduledTime)
    [] m.type = "CANCEL_NOTIFICATION" -> cancelScheduledNotification(S, m.id)
    [] OTHER -> S

Dispatch ==
  /\ queue # << >>
  /\ worker \notin {"none", "redundant"}
  /\ LET m == Head(queue)
     IN /\ sw' = OnMessage(sw, now, m)
        /\ lastSw' = [type |-> m.type, id |-> m.id, call |-> m.call,
                      outcome |-> Outcome(m, sw, sw'),
                      prev |-> lastSw.type, prevId |-> lastSw.id]
  /\ queue' = Tail(queue)
  /\ UNCHANGED <<sideVars, mgrVars, now, worker, permission, proc, ncalls>>

\* A timeout whose delay has elapsed runs its callback.
Fire(h) ==
  /\ h \in DOMAIN sw.timers
  /\ sw.timers[h].due <= now
  /\ sw' = TimeoutCallback(sw, h)
  /\ UNCHANGED <<sideVars, lastSw, mgrVars, now, worker, permission, proc,
                 ncalls, queue>>

\* The clock advances.
Tick ==
  /\ now < MaxTime
  /\ now' = now + 1
  /\ UNCHANGED <<sideVars, swVars, mgrVars, worker, permission, proc, ncalls, queue>>

\* The Dates the page schedules for.  An invalid Date never leaves the page,
\* so one id and one payload stand for all of them.
Dates == {DateOf(t) : t \in 0..MaxTime}
AnyId == CHOOSE id \in Ids : id # ""
AnyPayload == CHOOSE pl \in Payloads : pl.body # ""

Lifecycle ==
  \/ \E p \in Procs : RegisterResolves(p)
  \/ \E p \in Procs : RegisterRejects(p)
  \/ \E p \in Procs : Activated(p)
  \/ \E p \in Procs : ReadyResolves(p)
  \/ \E p \in Procs, o \in {"granted", "denied", "default", "error"} :
       PromptAnswered(p, o)
  \/ WorkerStateChange

Worker ==
  \/ Dispatch
  \/ \E h \in DOMAIN sw.timers : Fire(h)
  \/ Tick

(***************************************************************************)
(* Spec: the page and the worker from the construction of the manager on.  *)
(* The page schedules for one id with one payload.                         *)
(***************************************************************************)
PageCalls ==
  \/ CallInitialize(Page)
  \/ CallRequestPermission(Page)
  \/ \E d \in Dates \cup {InvalidDate} :
       CallScheduleNotification(Page, AnyId, AnyPayload, d)
  \/ CallCancelNotification(AnyId)

Next ==
  \/ ncalls < MaxCalls /\ PageCalls
  \/ Lifecycle
  \/ Worker

Spec == Init /\ [][Next]_vars

(***************************************************************************)
(* SwSpec: the worker under every sequence of SCHEDULE and CANCEL          *)
(* messages.  It starts where the manager is ready and the permission      *)
(* granted, a state in which scheduleNotification and cancelNotification   *)
(* do nothing but post their message, and the page calls those two only.   *)
(***************************************************************************)
ManagerReady ==
  /\ sw = [scheduled |-> EmptyMap, timers |-> EmptyMap, nextTimeoutId |-> 1,
           shown |-> << >>, cleared |-> {}]
  /\ now = 0
  /\ queue = << >>
  /\ worker = "activated"
  /\ isSupported = TRUE
  /\ isInitialized = TRUE
  /\ registration = TRUE
  /\ permission = "granted"
  /\ proc = [p \in Procs |->
               IF p = Ctor
               THEN [Idle EXCEPT !.op = "initialize", !.ret = "true",
                                 !.registers = 1]
               ELSE Idle]
  /\ ncalls = 0
  /\ lastSw = NoMessage

SwInit ==
  ManagerReady /\ click = NoClick /\ parse = NoParse /\ notifier = EmptyMap

Posts ==
  \/ \E id \in Ids, pl \in Payloads, d \in Dates :
       CallScheduleNotification(Page, id, pl, d)
  \/ \E id \in Ids : CallCancelNotification(id)

SwNext ==
  \/ ncalls < MaxPosts /\ Posts
  \/ Worker

SwSpec == SwInit /\ [][SwNext]_vars

(***************************************************************************)
(* NotifySpec: SwSpec with the promises of the notifier.  The promise of   *)
(* each call settles some time after the call, rendered or rejected (the   *)
(* permission was revoked, the platform failed), and runs its callback.    *)
(* The callbacks do not read the payload, so the page posts one payload.   *)
(***************************************************************************)
NotifyPosts ==
  \/ \E id \in Ids, d \in Dates : CallScheduleNotification(Page, id, AnyPayload, d)
  \/ \E id \in Ids : CallCancelNotification(id)

Pending == {i \in 1..Len(sw.shown) : i \notin DOMAIN notifier}

ShowSettles(i, outcome) ==
  /\ i \in Pending
  /\ notifier' = (i :> outcome) @@ notifier
  /\ sw' = IF outcome = "rejected" THEN OnShowError(sw, i) ELSE OnShown(sw, i)
  /\ UNCHANGED <<click, parse, lastSw, mgrVars, now, worker, permission, proc,
                 ncalls, queue>>

NotifyNext ==
  \/ ncalls < MaxPosts /\ NotifyPosts
  \/ Worker
  \/ \E i \in Pending, o \in {"rendered", "rejected"} : ShowSettles(i, o)

NotifySpec == SwInit /\ [][NotifyNext]_vars

(***************************************************************************)
(* FairSwSpec: SwSpec with a worker that stays alive.  Its event loop runs *)
(* every posted message and every timeout that is due, and time passes.    *)
(***************************************************************************)
Handles == 1..MaxPosts

FairSwSpec ==
  /\ SwSpec
  /\ WF_vars(Tick)
  /\ WF_vars(Dispatch)
  /\ \A h \in Handles : WF_vars(Fire(h))

\* NotifySpec with a worker that stays alive.
FairNotifySpec ==
  /\ NotifySpec
  /\ WF_vars(Tick)
  /\ WF_vars(Dispatch)
  /\ \A h \in Handles : WF_vars(Fire(h))

(***************************************************************************)
(* LifeSpec: the manager's lifecycle under every outcome of the platform's *)
(* promises and of the worker's installation.  Time stands still.          *)
(***************************************************************************)
LifeCalls ==
  \/ CallInitialize(Page)
  \/ CallRequestPermission(Page)
  \/ CallScheduleNotification(Page, AnyId, AnyPayload, DateOf(MaxTime))
  \/ CallCancelNotification(AnyId)

LifeNext ==
  \/ ncalls < MaxCalls /\ LifeCalls
  \/ Lifecycle
  \/ \E p \in Procs : ReadyRejects(p)
  \/ InstallFails
  \/ Dispatch

LifeSpec == Init /\ [][LifeNext]_vars

\* LifeSpec where every promise of the platform settles and the worker's
\* installation and activation run to their end, one way or the other.
FairLifeSpec ==
  /\ LifeSpec
  /\ \A p \in Procs :
       /\ WF_vars(RegisterResolves(p) \/ RegisterRejects(p))
       /\ WF_vars(Activated(p))
       /\ WF_vars(ReadyResolves(p) \/ ReadyRejects(p))
       /\ WF_vars(\E o \in {"granted", "denied", "default", "error"} :
                    PromptAnswered(p, o))
  /\ WF_vars(WorkerStateChange \/ InstallFails)

(***************************************************************************)
(* ClickSpec: one notificationclick event, for every action, every list of *)
(* window clients and both kinds of platform.                              *)
(***************************************************************************)
ClientLists == UNION {[1..n -> BOOLEAN] : n \in 0..MaxClients}

ClickInit ==
  /\ ManagerReady
  /\ parse = NoParse
  /\ notifier = EmptyMap
  /\ \E a \in {"close", "open", ""}, cl \in ClientLists, ow \in BOOLEAN :
       click = [action |-> a, clientList |-> cl, openWindow |-> ow,
                pc |-> "event", effects |-> << >>]

NotificationClick ==
  /\ click.pc = "event"
  /\ click' = notificationclick(click)
  /\ UNCHANGED <<notifier, swVars, mgrVars, now, worker, permission, proc, ncalls, queue,
                 parse>>

MatchAllResolves ==
  /\ click.pc = "matchAll"
  /\ click' = matchAllThen(click)
  /\ UNCHANGED <<notifier, swVars, mgrVars, now, worker, permission, proc, ncalls, queue,
                 parse>>

ClickNext == NotificationClick \/ MatchAllResolves

ClickSpec == ClickInit /\ [][ClickNext]_vars

(***************************************************************************)
(* ParseSpec: one call of parseTimeToDate, in either copy of the file, for *)
(* time strings made of an hour, minutes, a gap and a meridiem marker, at  *)
(* several instants of day 1.                                              *)
(***************************************************************************)
\* The decimal text of n (0 <= n <= 99), and its text in two digits.
Digits(n) ==
  IF n < 10 THEN <<DigitChars[n + 1]>>
  ELSE <<DigitChars[(n \div 10) + 1], DigitChars[(n % 10) + 1]>>

TwoDigits(n) == <<DigitChars[(n \div 10) + 1], DigitChars[(n % 10) + 1]>>

HourTexts ==
  {<< >>, <<"-", "1">>, <<"0", "9">>} \cup {Digits(h) : h \in 0..MaxHour}

MinuteTexts ==
  {<< >>, <<":">>} \cup {<<":">> \o TwoDigits(m) : m \in {0, 5, 30, 59, 60, 99}}

Gaps == {<< >>, <<" ">>}

MarkersAM == {<<"a", "m">>, <<"A", "M">>, <<"A", "m">>, <<"a", "M">>}
MarkersPM == {<<"p", "m">>, <<"P", "M">>, <<"P", "m">>, <<"p", "M">>}
Markers == MarkersAM \cup MarkersPM

Compose(hourText, minuteText, gap, marker) ==
  hourText \o minuteText \o gap \o marker

\* 00:00:00, 09:30:00, 09:30:15, 21:30:00 and 23:59:59 of day 1.
Instants ==
  {DaySeconds + h * 60 * 60 + m * 60 + sec :
     <<h, m, sec>> \in {<<0, 0, 0>>, <<9, 30, 0>>, <<9, 30, 15>>, <<21, 30, 0>>,
                        <<23, 59, 59>>}}

Variants == {"part_000", "part_001"}

ParseInit ==
  /\ ManagerReady
  /\ click = NoClick
  /\ notifier = EmptyMap
  /\ \E v \in Variants, t \in Instants :
       \E ht \in HourTexts, mt \in MinuteTexts, g \in Gaps,
          mk \in Markers \cup {<< >>} :
         parse = [NoParse EXCEPT !.variant = v, !.at = t,
                                 !.timeStr = Compose(ht, mt, g, mk),
                                 !.text = [hour |-> ht, minute |-> mt,
                                           gap |-> g, marker |-> mk]]

ParseTimeToDate ==
  /\ ~parse.done
  /\ parse' = [parse EXCEPT
                 !.done = TRUE,
                 !.hm = hoursAndMinutes(parse.variant, parse.timeStr),
                 !.returned = parseTimeToDate(parse.variant, parse.timeStr,
                                              parse.at)]
  /\ UNCHANGED <<notifier, swVars, mgrVars, now, worker, permission, proc, ncalls, queue,
                 click>>

ParseNext == ParseTimeToDate

ParseSpec == ParseInit /\ [][ParseNext]_vars

(***************************************************************************)
(* Properties.                                                             *)
(***************************************************************************)
\* The step in which the worker's message listener runs on message m.
DispatchStep(m) == queue # << >> /\ Head(queue) = m /\ queue' = Tail(queue)

Messages == {queue[i] : i \in 1..Len(queue)}

\* The armed timeouts whose callback captured id.
TimersOf(S, id) == {h \in DOMAIN S.timers : S.timers[h].id = id}

\* The notifier's calls made by the callback of timeout h.
ShownBy(S, h) == {i \in 1..Len(S.shown) : S.shown[i].by = h}

IsSchedule(m) == m.type = "SCHEDULE_NOTIFICATION"
IsCancel(m) == m.type = "CANCEL_NOTIFICATION"

\* A SCHEDULE message whose time, when dispatched at tick t, is in the future
\* and within the range of a timeout.
FutureInRange(m, t) ==
  /\ IsSchedule(m)
  /\ getTime(m.scheduledTime) - t > 0
  /\ ~(getTime(m.scheduledTime) - t > MAX_TIMEOUT \div TickMs)

(* C1: in the worker, an id has an entry in scheduledNotifications if and
   only if a timeout for that id is armed: every entry's timeoutId is an
   armed timeout that captured the entry's id, every armed timeout is the
   timeoutId of the entry of the id it captured, and the map has as many
   entries as there are armed timeouts. *)
C1_StoreIffArmed ==
  /\ \A id \in DOMAIN sw.scheduled :
       /\ sw.scheduled[id].timeoutId \in DOMAIN sw.timers
       /\ sw.timers[sw.scheduled[id].timeoutId].id = id
  /\ \A h \in DOMAIN sw.timers :
       /\ sw.timers[h].id \in DOMAIN sw.scheduled
       /\ sw.scheduled[sw.timers[h].id].timeoutId = h
  /\ Cardinality(DOMAIN sw.scheduled) = Cardinality(DOMAIN sw.timers)

\* An entry is armed after the timeout of another has fired.
C1_Witness ==
  /\ DOMAIN sw.scheduled # {}
  /\ DOMAIN sw.timers # {}
  /\ \E i \in 1..Len(sw.shown) : sw.shown[i].by # 0

(* C2: when a SCHEDULE for an id whose entry is still armed is dispatched
   with a time in the future and in range, the id is left with exactly one
   entry and one armed timeout, a new one, carrying the second message's
   title, body and scheduled time; the first timeout is cleared, and a
   cleared timeout never calls the notifier.  At every state an id has at
   most one armed timeout. *)
C2_Replace ==
  /\ [](\A id \in Ids : Cardinality(TimersOf(sw, id)) <= 1)
  /\ [](\A h \in sw.cleared : ShownBy(sw, h) = {} /\ h \notin DOMAIN sw.timers)
  /\ [][\A m \in Messages :
          DispatchStep(m) /\ FutureInRange(m, now) /\ m.id \in DOMAIN sw.scheduled
          => LET old == sw.scheduled[m.id].timeoutId
                 e == sw'.scheduled[m.id]
             IN /\ m.id \in DOMAIN sw'.scheduled
                /\ e.title = m.title /\ e.body = m.body
                /\ e.scheduledTime = m.scheduledTime
                /\ e.timeoutId # old
                /\ TimersOf(sw', m.id) = {e.timeoutId}
                /\ sw'.timers[e.timeoutId].title = m.title
                /\ sw'.timers[e.timeoutId].body = m.body
                /\ sw'.timers[e.timeoutId].due = getTime(m.scheduledTime)
                /\ old \in sw'.cleared
                /\ Len(sw'.shown) = Len(sw.shown)]_vars

\* The id's entry was replaced by one with another title, and the clock has
\* passed the time the first timeout was due.
C2_Witness ==
  /\ lastSw.type = "SCHEDULE_NOTIFICATION" /\ lastSw.outcome = "armed"
  /\ ncalls = lastSw.call /\ lastSw.call > 1
  /\ sw.cleared # {}
  /\ lastSw.id \in DOMAIN sw.scheduled
  /\ sw.scheduled[lastSw.id].timeoutId > 1
  /\ sw.scheduled[lastSw.id].title = "Feed cat"
  /\ now = MaxTime
  /\ sw.shown = << >>

(* C3: a schedule request whose delay exceeds the maximum timer interval is
   surfaced to the caller as a rejected request: when the worker drops the
   SCHEDULE message of the page's last call for capacity, that call of
   scheduleNotification has not returned true; and the dropped request
   leaves no entry and no armed timeout for its id. *)
C3_CapacityRejectionSurfaced ==
  lastSw.outcome = "capacity"
  => /\ lastSw.id \notin DOMAIN sw.scheduled
     /\ TimersOf(sw, lastSw.id) = {}
     /\ (proc[Page].call = lastSw.call => proc[Page].ret # "true")

(* C4: when a CANCEL for an id is dispatched, the id is absent from the
   map afterwards and the timeout its entry held is cleared; a cleared
   timeout is never armed again and its callback never calls the notifier;
   and an absent id enters the map only by the dispatch of a SCHEDULE
   message for it. *)
C4_CancelPreventsFire ==
  /\ [][\A m \in Messages :
          DispatchStep(m) /\ IsCancel(m)
          => /\ m.id \notin DOMAIN sw'.scheduled
             /\ TimersOf(sw', m.id) = {}
             /\ m.id \in DOMAIN sw.scheduled
                => sw.scheduled[m.id].timeoutId \in sw'.cleared]_vars
  /\ [][\A h \in sw.cleared :
          /\ h \notin DOMAIN sw'.timers
          /\ h \in sw'.cleared
          /\ \A i \in (Len(sw.shown) + 1)..Len(sw'.shown) : sw'.shown[i].by # h]_vars
  /\ [][\A id \in Ids :
          id \notin DOMAIN sw.scheduled /\ id \in DOMAIN sw'.scheduled
          => \E m \in Messages : DispatchStep(m) /\ IsSchedule(m) /\ m.id = id]_vars

\* A CANCEL removed an armed entry, the clock has passed every time a
\* timeout could be due, and the notifier was never called.
C4_Witness ==
  /\ lastSw.type = "CANCEL_NOTIFICATION" /\ lastSw.outcome = "cancelled"
  /\ sw.cleared # {}
  /\ now = MaxTime
  /\ sw.shown = << >>
  /\ queue = << >>

(* C5, as claimed: every call of the notifier made by a timeout's callback
   is the only one for that timeout and carries a tag equal to the item's
   id, the empty id included. *)
C5_TagEqualsId ==
  \A i \in 1..Len(sw.shown) :
    sw.shown[i].by # 0
    => /\ Cardinality(ShownBy(sw, sw.shown[i].by)) = 1
       /\ sw.shown[i].tag = sw.shown[i].id

(* C5, amended: an armed timeout that is not cleared (its entry neither
   cancelled nor replaced) eventually fires, while the worker stays alive;
   its callback calls the notifier exactly once, with the item's title and
   body and with tag equal to the id, or 'activity-reminder' when the id is
   the empty string; and after the firing step the map has no entry for
   the id. *)
C5_ArmedFiresOnce ==
  /\ \A h \in Handles :
       (h \in DOMAIN sw.timers) ~> (h \in sw.cleared \/ ShownBy(sw, h) # {})
  /\ [](\A i \in 1..Len(sw.shown) :
          sw.shown[i].by # 0
          => /\ Cardinality(ShownBy(sw, sw.shown[i].by)) = 1
             /\ sw.shown[i].tag = IF sw.shown[i].id = "" THEN "activity-reminder"
                                  ELSE sw.shown[i].id)
  /\ [][\A h \in DOMAIN sw.timers :
          ShownBy(sw', h) # {}
          => /\ ShownBy(sw, h) = {}
             /\ h \notin DOMAIN sw'.timers
             /\ sw.timers[h].id \notin DOMAIN sw'.scheduled
             /\ \A i \in ShownBy(sw', h) :
                  /\ sw'.shown[i].id = sw.timers[h].id
                  /\ sw'.shown[i].title = sw.timers[h].title
                  /\ sw'.shown[i].body = sw.timers[h].body]_vars

\* The timeout of an item with the empty id has fired.
C5_Witness ==
  \E i \in 1..Len(sw.shown) :
    /\ sw.shown[i].by # 0
    /\ sw.shown[i].id = ""
    /\ sw.shown[i].tag = "activity-reminder"
    /\ "" \notin DOMAIN sw.scheduled

(* C6: the dispatch of a SCHEDULE whose time is not after now calls the
   notifier exactly once in that step, for that item, and leaves the id
   with no entry and no armed timeout; the timeout of an entry the id had
   before is cleared. *)
C6_PastFiresImmediately ==
  [][\A m \in Messages :
       DispatchStep(m) /\ IsSchedule(m) /\ getTime(m.scheduledTime) - now <= 0
       => /\ Len(sw'.shown) = Len(sw.shown) + 1
          /\ LET e == sw'.shown[Len(sw'.shown)]
             IN /\ e.id = m.id /\ e.title = m.title /\ e.body = m.body
                /\ e.by = 0
          /\ m.id \notin DOMAIN sw'.scheduled
          /\ TimersOf(sw', m.id) = {}
          /\ sw'.nextTimeoutId = sw.nextTimeoutId
          /\ m.id \in DOMAIN sw.scheduled
             => sw.scheduled[m.id].timeoutId \in sw'.cleared]_vars

\* The second of two messages was a SCHEDULE for a time that had passed,
\* and it removed the entry the first had armed.
C6_Witness ==
  /\ lastSw.type = "SCHEDULE_NOTIFICATION" /\ lastSw.outcome = "immediate"
  /\ lastSw.call = ncalls
  /\ sw.cleared # {}
  /\ Len(sw.shown) = 1
  /\ sw.nextTimeoutId > 1
  /\ DOMAIN sw.scheduled = {}

(* C7: a SCHEDULE and a CANCEL for the same id dispatched one after the
   other resolve by the order of dispatch.  CANCEL after SCHEDULE leaves the
   id with no entry and no armed timeout; SCHEDULE (future, in range) after
   CANCEL leaves the id with its entry and exactly one armed timeout, that
   of the message.  Each dispatch is one step. *)
C7_LastDispatchedWins ==
  [][\A m \in Messages :
       DispatchStep(m) /\ lastSw.id = m.id
       => /\ IsCancel(m) /\ lastSw.type = "SCHEDULE_NOTIFICATION"
             => /\ m.id \notin DOMAIN sw'.scheduled
                /\ TimersOf(sw', m.id) = {}
          /\ FutureInRange(m, now) /\ lastSw.type = "CANCEL_NOTIFICATION"
             => /\ m.id \in DOMAIN sw'.scheduled
                /\ sw'.scheduled[m.id].title = m.title
                /\ sw'.scheduled[m.id].scheduledTime = m.scheduledTime
                /\ TimersOf(sw', m.id) = {sw'.scheduled[m.id].timeoutId}
                /\ TimersOf(sw, m.id) = {}]_vars

\* A CANCEL and then a SCHEDULE for one id were dispatched, and the id is
\* armed.
C7_Witness ==
  /\ lastSw.type = "SCHEDULE_NOTIFICATION" /\ lastSw.outcome = "armed"
  /\ lastSw.prev = "CANCEL_NOTIFICATION" /\ lastSw.prevId = lastSw.id
  /\ DOMAIN sw.scheduled = {lastSw.id}
  /\ TimersOf(sw, lastSw.id) # {}

(* C9: the dispatch of a CANCEL for an id that has no entry leaves the map,
   the armed timeouts and the notifier's calls as they were; and in every
   state, cancelling an id twice gives the state cancelling it once gives. *)
C9_CancelAbsentIsNoOp ==
  /\ [][\A m \in Messages :
          DispatchStep(m) /\ IsCancel(m) /\ m.id \notin DOMAIN sw.scheduled
          => sw' = sw]_vars
  /\ [](\A id \in Ids :
          LET once == cancelScheduledNotification(sw, id)
          IN /\ cancelScheduledNotification(once, id) = once
             /\ \A other \in DOMAIN sw.scheduled \ {id} :
                  /\ other \in DOMAIN once.scheduled
                  /\ once.scheduled[other] = sw.scheduled[other]
                  /\ once.scheduled[other].timeoutId \in DOMAIN once.timers)

\* A CANCEL for an absent id was dispatched while another id was armed.
C9_Witness ==
  /\ lastSw.type = "CANCEL_NOTIFICATION" /\ lastSw.outcome = "absent"
  /\ DOMAIN sw.scheduled # {}
  /\ lastSw.id \notin DOMAIN sw.scheduled

\* The step in which the call in slot p returns.
Returns(p) ==
  /\ proc'[p].pc = "done"
  /\ proc[p].pc # "done" \/ proc'[p].call # proc[p].call

(* C8: scheduleNotification posts a SCHEDULE message and returns true only
   when the lifecycle is ready (isReady()) and the permission is granted;
   otherwise it posts nothing and returns false. *)
C8_ScheduleOnlyWhenReady ==
  [][\A p \in Procs :
       Returns(p) /\ proc'[p].op = "scheduleNotification"
       => /\ proc'[p].ret \in {"true", "false"}
          /\ proc'[p].ret = "true"
             => isReady' /\ permission' = "granted"
          /\ proc'[p].ret = "true" <=> Len(queue') = Len(queue) + 1
          /\ proc'[p].ret = "false" => queue' = queue]_vars

(* C10: requestPermission, once the lifecycle is ready.  A prompt is pending
   only when the permission was neither granted nor denied, and a call
   issues at most one.  A call that returned without prompting returned
   true on a granted permission or false on a denied one; a call that
   prompted returned true if and only if the prompt ended in granted. *)
C10_PermissionRequest ==
  LET P == proc[Page]
  IN P.op = "requestPermission"
     => /\ P.prompts <= 1
        /\ P.pc = "awaitPrompt"
           => isReady /\ permission = "default" /\ P.prompts = 1
        /\ P.pc = "done" /\ P.alert \notin {"unsupported", "initFailed"}
           => /\ isReady
              /\ P.ret \in {"true", "false"}
              /\ P.prompts = 0
                 => \/ permission = "granted" /\ P.ret = "true"
                    \/ permission = "denied" /\ P.ret = "false"
              /\ P.prompts = 1
                 => (P.ret = "true" <=> permission = "granted")

\* A call prompted once, the prompt was dismissed, and the call returned
\* false.
C10_Witness ==
  /\ proc[Page].op = "requestPermission" /\ proc[Page].pc = "done"
  /\ proc[Page].prompts = 1
  /\ proc[Page].ret = "false"
  /\ proc[Page].alert = "dismissed"
  /\ permission = "default"

(* C11: when the capability check at construction found the features absent
   (isSupported is false), no operation registers a worker, prompts for the
   permission or posts a message, every call that returns a result returns
   false at once, and the manager never becomes ready. *)
C11_UnsupportedFailsFast ==
  ~isSupported
  => /\ ~registration /\ ~isInitialized /\ ~isReady
     /\ worker = "none"
     /\ queue = << >>
     /\ \A p \in Procs :
          /\ proc[p].pc = "done"
          /\ proc[p].prompts = 0
          /\ ~proc[p].posted
          /\ proc[p].registers = 0
          /\ proc[p].op # "none" => proc[p].ret = "false"

\* In an unsupported environment the page has made all its calls, the last
\* of them scheduleNotification, which returned false.
C11_Witness ==
  /\ ~isSupported
  /\ ncalls = MaxCalls
  /\ proc[Page].op = "scheduleNotification"
  /\ proc[Page].call = MaxCalls
  /\ proc[Page].ret = "false"

\* An initialize() is past register() and has not returned.
InitializeInProgress ==
  \E p \in Procs : proc[p].pc \in {"awaitActivated", "awaitReady", "awaitNever"}

(* C12: a failure of initialize() leaves no partial state.  The step in
   which a call of initialize returns false changes none of isInitialized,
   registration and isSupported; and whenever this.registration is set
   while isInitialized is false, an initialize() is still in progress past
   its register(): no failed initialization has left the registration
   behind for cancelNotification and scheduleNotification to post through. *)
C12_FailureLeavesNoPartialState ==
  /\ [][\A p \in Procs :
          Returns(p) /\ proc'[p].op = "initialize" /\ proc'[p].ret = "false"
          => mgrVars' = mgrVars]_vars
  /\ [](registration /\ ~isInitialized => InitializeInProgress)

(* C13: initialize() is idempotent once ready.  A call made while isReady()
   holds returns true in the step of the call, calls register() not at all
   and changes neither the manager's fields, the worker nor the queue; a
   call of requestPermission or scheduleNotification made while ready does
   not register either; and isReady() never goes from true to false. *)
C13_InitializeIdempotent ==
  /\ [][(isReady /\ ncalls' = ncalls + 1 /\
          proc'[Page].call = ncalls' /\ proc'[Page].op = "initialize")
          => /\ proc'[Page].pc = "done"
             /\ proc'[Page].ret = "true"
             /\ proc'[Page].registers = 0
             /\ mgrVars' = mgrVars
             /\ worker' = worker
             /\ queue' = queue]_vars
  /\ [][isReady /\ ncalls' = ncalls + 1 /\ proc'[Page].call = ncalls'
          => proc'[Page].registers = 0 /\ proc'[Page].pc # "awaitRegister"]_vars
  /\ [][isReady => isReady']_vars

\* A call of initialize made by the page returned true without a call of
\* register(), after the constructor's call had registered.
C13_Witness ==
  /\ isReady
  /\ proc[Page].op = "initialize" /\ proc[Page].pc = "done"
  /\ proc[Page].ret = "true"
  /\ proc[Page].registers = 0
  /\ proc[Ctor].registers = 1 /\ proc[Ctor].ret = "true"

\* The calls of kind k the listener made for the event.
EffectsOf(C, k) == {i \in 1..Len(C.effects) : C.effects[i].kind = k}

(* C14, as claimed: once the listener has finished, the action 'close' has
   caused neither a focus nor an openWindow, and every other action has
   caused exactly one of the two, never both and never neither. *)
C14_ExactlyOneOutcome ==
  click.pc = "done" /\ click # NoClick
  => IF click.action = "close"
     THEN EffectsOf(click, "focus") = {} /\ EffectsOf(click, "openWindow") = {}
     ELSE Cardinality(EffectsOf(click, "focus"))
          + Cardinality(EffectsOf(click, "openWindow")) = 1

(* C14, amended: the action 'close' causes neither a focus nor an
   openWindow.  Any other action focuses the first matching window client
   and opens nothing when a client matches; opens one window and focuses
   nothing when none matches and the platform has clients.openWindow; and
   does neither when none matches and the platform has no
   clients.openWindow.  It never does both, and the notification is closed
   once in every case. *)
C14_FocusOrOpen ==
  click.pc = "done" /\ click # NoClick
  => LET focus == EffectsOf(click, "focus")
         open == EffectsOf(click, "openWindow")
         first == FirstMatch(click.clientList)
     IN /\ Cardinality(EffectsOf(click, "close")) = 1
        /\ Cardinality(focus) + Cardinality(open) <= 1
        /\ click.action = "close" => focus = {} /\ open = {}
        /\ click.action # "close" /\ first # 0
           => /\ open = {}
              /\ \E i \in focus : click.effects[i].client = first
              /\ click.clientList[first]
              /\ \A j \in 1..(first - 1) : ~click.clientList[j]
        /\ click.action # "close" /\ first = 0
           => /\ focus = {}
              /\ Cardinality(open) = (IF click.openWindow THEN 1 ELSE 0)

\* A click on the notification's body found a window that does not match
\* before one that does, and focused the second.
C14_Witness ==
  /\ click.pc = "done"
  /\ click.action = ""
  /\ Len(click.clientList) > 1
  /\ ~click.clientList[1]
  /\ \E i \in EffectsOf(click, "focus") : click.effects[i].client = 2

\* The hour the claim gives for hour h of the 12-hour clock.
ClaimedHour(h, isPM) ==
  IF isPM THEN (IF h = 12 THEN 12 ELSE h + 12) ELSE (IF h = 12 THEN 0 ELSE h)

(* C15: for a time string with hour h in 1..12 and a meridiem marker
   written in one case (am, AM, pm, PM), with or without minutes and with
   or without a gap before the marker, the hour parseTimeToDate normalizes
   to is h for AM with h # 12, 0 for 12 AM, h + 12 for PM with h # 12 and
   12 for 12 PM. *)
C15_TwelveHourNormalized ==
  parse.done
  => \A h \in 1..12 :
       /\ parse.text.hour = Digits(h)
       /\ parse.text.marker \in {<<"a", "m">>, <<"A", "M">>, <<"p", "m">>, <<"P", "M">>}
       => parse.hm.hours = Num(ClaimedHour(h, parse.text.marker \in MarkersPM))

\* '12:30 AM' was parsed, and the hour is 0.
C15_Witness ==
  /\ parse.done
  /\ parse.timeStr = <<"1", "2", ":", "3", "0", " ", "A", "M">>
  /\ parse.hm = [hours |-> Num(0), minutes |-> Num(30)]

(* C16: the meridiem marker is case-insensitive: a time string with a
   marker in any letter case (am, AM, Am, aM, pm, PM, Pm, pM) gives the
   hours, the minutes and the instant that the same string with the marker
   in lower case gives. *)
C16_MarkerCaseInsensitive ==
  parse.done
  => LET lower == Compose(parse.text.hour, parse.text.minute, parse.text.gap,
                          toLowerCase(parse.text.marker))
     IN parse.text.marker \in Markers
        => /\ parse.hm = hoursAndMinutes(parse.variant, lower)
           /\ parse.returned = parseTimeToDate(parse.variant, lower, parse.at)

(* C17: the instant parseTimeToDate returns is strictly later than the
   instant of the call.  For valid hours and minutes it is that time of day
   with the seconds at zero, on the day of the call when that is strictly
   after the call and on the next day otherwise; for an invalid string (no
   hour, an hour that normalizes below 0 or above 23, minutes above 59) it
   is the instant of the call plus one minute. *)
C17_StrictlyLater ==
  parse.done
  => LET today == (parse.at \div DaySeconds) * DaySeconds
         hm == parse.hm
         valid == /\ ~hm.hours.nan /\ ~hm.minutes.nan
                  /\ hm.hours.val \in 0..23 /\ hm.minutes.val \in 0..59
         tod == hm.hours.val * 3600 + hm.minutes.val * 60
     IN /\ parse.returned > parse.at
        /\ valid => /\ parse.returned \in {today + tod, today + tod + DaySeconds}
                    /\ parse.returned = today + tod <=> today + tod > parse.at
        /\ ~valid => parse.returned = parse.at + 60
        /\ LET ht == parse.text.hour
               mt == parse.text.minute
               mk == parse.text.marker
           IN /\ ht = << >> => ~valid
              /\ ht = <<"-", "1">> /\ mk \in {<< >>, <<"a", "m">>, <<"A", "M">>}
                 => ~valid
              /\ mt \in {<<":", "6", "0">>, <<":", "9", "9">>} => ~valid
              /\ mk = << >> /\ (\E h \in 24..MaxHour : ht = Digits(h)) => ~valid
              /\ mk \in {<<"p", "m">>, <<"P", "M">>}
                 /\ (\E h \in 13..MaxHour : ht = Digits(h)) => ~valid
              /\ mk = << >> /\ mt \in {<< >>, <<":", "3", "0">>}
                 /\ (\E h \in 0..23 : ht = Digits(h)) => valid

\* '9:30' was parsed at 09:30:00 exactly, and the instant returned is
\* 09:30:00 of the next day.
C17_Witness ==
  /\ parse.done
  /\ parse.timeStr = <<"9", ":", "3", "0">>
  /\ parse.at = DaySeconds + 9 * 3600 + 30 * 60
  /\ parse.returned = parse.at + DaySeconds

\* Some call of the notifier was rejected.
Rejected == {i \in DOMAIN notifier : notifier[i] = "rejected"}

(* C18: when the notifier rejects the call a firing item made, the step
   that handles the rejection changes nothing in the worker: no call of the
   notifier is added (no retry), the map and the armed timeouts are as they
   were, the posted messages stay posted.  The entry of the item that fired
   is gone from the map, whatever the notifier answered.  After a rejection
   every timeout that is armed still fires unless it is cleared, and every
   message posted is still dispatched, while the worker stays alive. *)
C18_RenderingFailureTolerated ==
  /\ [][Rejected' # Rejected
        => sw' = sw /\ queue' = queue /\ lastSw' = lastSw]_vars
  /\ [](\A i \in 1..Len(sw.shown) :
          sw.shown[i].by # 0
          => /\ sw.shown[i].by \notin DOMAIN sw.timers
             /\ \A id \in DOMAIN sw.scheduled :
                  sw.scheduled[id].timeoutId # sw.shown[i].by)
  /\ \A h \in Handles :
       (Rejected # {} /\ h \in DOMAIN sw.timers)
       ~> (h \in sw.cleared \/ ShownBy(sw, h) # {})
  /\ (Rejected # {} /\ queue # << >>) ~> (queue = << >>)

\* The notifier rejected the call of a timeout's callback; after that
\* another timeout fired and its notification was rendered, and a message
\* posted after the rejection was dispatched.
C18_Witness ==
  \E i \in Rejected, j \in DOMAIN notifier :
    /\ i < j
    /\ sw.shown[i].by # 0
    /\ sw.shown[j].by # 0
    /\ notifier[j] = "rendered"
    /\ sw.shown[i].id \notin DOMAIN sw.scheduled
    /\ queue = << >>

\* The step is a call of cancelNotification: the page made a call and no
\* call of an async method began.
CancelStep == ncalls' = ncalls + 1 /\ proc' = proc

(* C19: a cancelNotification(id) the page calls after its
   scheduleNotification(id, ...) returned true posts a CANCEL message for
   the id behind the messages already posted to the worker, whichever of
   active, waiting or installing the worker was when the SCHEDULE was
   posted and is now. *)
C19_CancelFollowsSchedule ==
  [][(/\ CancelStep
      /\ proc[Page].op = "scheduleNotification"
      /\ proc[Page].pc = "done"
      /\ proc[Page].ret = "true")
     => queue' = Append(queue, CancelMessage(proc[Page].args.id, ncalls'))]_vars

\* The positions of a call inside initialize().
InInitialize(p) ==
  proc[p].pc \in {"awaitRegister", "awaitActivated", "awaitReady", "awaitNever"}

(* C20: every call of initialize() in a supported environment, the
   constructor's and those requestPermission and scheduleNotification make
   included, eventually completes, whatever becomes of the worker: also
   when the worker it found installing becomes redundant. *)
C20_InitializeCompletes ==
  \A p \in Procs : InInitialize(p) ~> ~InInitialize(p)

(* C21: the callback of a timeout whose entry was cancelled or replaced
   never takes effect.  A cleared timeout is not armed and has made no call
   of the notifier.  An entry leaves the map, or gets another timeout, only
   in the dispatch of a message for its id or in the step in which its own
   timeout fires.  Every timeout calls the notifier at most once, a
   dispatch calls it at most once, and the calls made, the timeouts armed
   and the timeouts cleared together are no more than the messages
   dispatched. *)
C21_StaleCallbackNeverRuns ==
  /\ [](\A h \in sw.cleared : h \notin DOMAIN sw.timers /\ ShownBy(sw, h) = {})
  /\ [](\A h \in 1..(sw.nextTimeoutId - 1) : Cardinality(ShownBy(sw, h)) <= 1)
  /\ [](Len(sw.shown) + Cardinality(DOMAIN sw.timers) + Cardinality(sw.cleared)
          <= ncalls - Len(queue))
  /\ [][Len(sw'.shown) <= Len(sw.shown) + 1]_vars
  /\ [][\A id \in DOMAIN sw.scheduled :
          LET own == sw.scheduled[id].timeoutId
          IN (id \notin DOMAIN sw'.scheduled \/ sw'.scheduled[id].timeoutId # own)
             => \/ \E m \in Messages : DispatchStep(m) /\ m.id = id
                \/ /\ ShownBy(sw, own) = {} /\ ShownBy(sw', own) # {}
                   /\ own \notin sw'.cleared
                   /\ id \notin DOMAIN sw'.scheduled]_vars

\* The first timeout was cleared by a SCHEDULE for its id, the second
\* timeout fired and took its own entry with it, and the notifier was
\* called that once.
C21_Witness ==
  /\ sw.cleared = {1}
  /\ lastSw.type = "SCHEDULE_NOTIFICATION" /\ lastSw.prev = "SCHEDULE_NOTIFICATION"
  /\ lastSw.id = lastSw.prevId
  /\ Len(sw.shown) = 1
  /\ sw.shown[1].by = 2
  /\ sw.shown[1].id = lastSw.id
  /\ lastSw.id \notin DOMAIN sw.scheduled
  /\ now = MaxTime

(* C22: the dispatch of a SCHEDULE whose delay exceeds the maximum, for an
   id that has an armed entry, removes that entry and clears its timeout:
   afterwards the id has no entry and no armed timeout, the notifier was
   not called, and the entries and timeouts of the other ids are as they
   were.  The timeout cleared this way never calls the notifier. *)
C22_RejectedScheduleRemovesEntry ==
  /\ [][\A m \in Messages :
          (/\ DispatchStep(m) /\ IsSchedule(m)
           /\ TooLong(getTime(m.scheduledTime) - now)
           /\ m.id \in DOMAIN sw.scheduled)
          => LET old == sw.scheduled[m.id].timeoutId
             IN /\ m.id \notin DOMAIN sw'.scheduled
                /\ TimersOf(sw', m.id) = {}
                /\ old \in sw'.cleared
                /\ sw'.shown = sw.shown
                /\ \A id \in DOMAIN sw.scheduled \ {m.id} :
                     /\ id \in DOMAIN sw'.scheduled
                     /\ sw'.scheduled[id] = sw.scheduled[id]
                /\ DOMAIN sw'.scheduled \subseteq DOMAIN sw.scheduled
                /\ \A h \in DOMAIN sw.timers \ {old} :
                     h \in DOMAIN sw'.timers /\ sw'.timers[h] = sw.timers[h]
                /\ DOMAIN sw'.timers \subseteq DOMAIN sw.timers]_vars
  /\ [](lastSw.outcome = "capacity"
        => \A h \in sw.cleared : ShownBy(sw, h) = {})

\* An over-long SCHEDULE for an id followed the SCHEDULE that armed it; the
\* time of the first has passed and nothing was shown.
C22_Witness ==
  /\ lastSw.type = "SCHEDULE_NOTIFICATION" /\ lastSw.outcome = "capacity"
  /\ lastSw.prev = "SCHEDULE_NOTIFICATION" /\ lastSw.prevId = lastSw.id
  /\ sw.cleared = {1}
  /\ sw.scheduled = EmptyMap /\ sw.timers = EmptyMap
  /\ sw.shown = << >>
  /\ now = MaxTime

====
